---- MODULE Spec2Model ----
(***************************************************************************)
(* 2048 driven by an LLM agent: the board engine of game.py (move,         *)
(* add_random_tile, init_board) and the GameAgent of agent.py              *)
(* (get_available_moves, get_next_move, make_move, play_game).             *)
(*                                                                         *)
(* A board is a 4-tuple of rows, each a 4-tuple of naturals, 0 = empty.    *)
(* The board None of GameAgent.__init__ is the empty tuple << >>.          *)
(* A direction is the name of a member of the enum Move.                   *)
(***************************************************************************)
EXTENDS Integers, Sequences, FiniteSets, TLC

VARIABLES
    board,       \* self.board of the agent; in the function-level
                 \* specifications, the array the caller passes
    move_count,  \* self.move_count
    score,       \* self.score
    rng,         \* state of the module-level generator of `random`:
                 \* the number of draws made from it so far
    pc,          \* position of play_game
    max_moves,   \* argument of play_game
    next_move,   \* local next_move of play_game
    response,    \* what the Oracle did in the last get_next_move
    op,          \* the last operation called
    arg,         \* its arguments, as they were at the call
    ret,         \* its outcome
    new_board,   \* local new_board of move() at line 79, before the spawn
    calls        \* number of calls made by the driver of the agent's methods

vars == << board, move_count, score, rng, pc, max_moves, next_move,
           response, op, arg, ret, new_board, calls >>

(***************************************************************************)
(* Bounds of the model.                                                    *)
(***************************************************************************)
\* rows of the row-level specification hold 0 or 2^1 .. 2^RowMaxExp
RowMaxExp == 3

\* number of cells of a board of the function-level specification that
\* range over the tiles; the other cells follow a fixed background
FreeCells == 5

\* in the agent-level specifications random.choice picks among the first
\* SpawnChoices empty cells (row-major, the order of line 27)
SpawnChoices == 2

\* play_game is called with max_moves at most MaxMovesCap above the moves
\* already made
MaxMovesCap == 1

\* number of calls a driver makes in the method-level specification
MaxCalls == 1

(***************************************************************************)
(* game.py                                                                 *)
(***************************************************************************)
N == 4

Idx == 1..N

MoveOrder == << "LEFT", "RIGHT", "UP", "DOWN" >>

Moves == { MoveOrder[k] : k \in 1..Len(MoveOrder) }

NoBoard == << >>

\* the same sequence, held as a tuple of its elements
Tuple(f) == f \o << >>

ZeroBoard == Tuple([i \in Idx |-> Tuple([j \in Idx |-> 0])])

RECURSIVE Pow2(_)
Pow2(k) == IF k = 0 THEN 1 ELSE 2 * Pow2(k - 1)

\* np.flip(b, 1): every row reversed
flip1(b) == Tuple([i \in Idx |-> Tuple([j \in Idx |-> b[i][N + 1 - j]])])

\* np.transpose(b)
transpose(b) == Tuple([i \in Idx |-> Tuple([j \in Idx |-> b[j][i]])])

\* lines 38-43 with the two calls of line 43 in the other order
orient_down_fliptranspose(b, d) ==
    IF d = "RIGHT" THEN flip1(b)
    ELSE IF d = "UP" THEN transpose(b)
    ELSE IF d = "DOWN" THEN transpose(flip1(b))
    ELSE b

\* lines 38-43: bring the direction of the move to "leftward"
orient(b, d) ==
    IF d = "RIGHT" THEN flip1(b)
    ELSE IF d = "UP" THEN transpose(b)
    ELSE IF d = "DOWN" THEN flip1(transpose(b))
    ELSE b

\* the inner loop of lines 50-63 after a merge, with the sentinel kept:
\* last_val stays the merged value instead of being cleared
RECURSIVE row_scan_nosentinel(_, _, _, _)
row_scan_nosentinel(row, j, new, last_val) ==
    IF j > N THEN new
    ELSE LET val == row[j] IN
         IF val = 0 THEN row_scan_nosentinel(row, j + 1, new, last_val)
         ELSE IF Len(new) = 0
              THEN row_scan_nosentinel(row, j + 1, Append(new, val), val)
         ELSE IF val = last_val
              THEN row_scan_nosentinel(row, j + 1,
                       [new EXCEPT ![Len(new)] = 2 * @], 2 * val)
         ELSE row_scan_nosentinel(row, j + 1, Append(new, val), val)

\* lines 50-63 with line 59 reading new[-1] += 2
RECURSIVE row_scan_addtwo(_, _, _, _)
row_scan_addtwo(row, j, new, last_val) ==
    IF j > N THEN new
    ELSE LET val == row[j] IN
         IF val = 0 THEN row_scan_addtwo(row, j + 1, new, last_val)
         ELSE IF Len(new) = 0
              THEN row_scan_addtwo(row, j + 1, Append(new, val), val)
         ELSE IF val = last_val
              THEN row_scan_addtwo(row, j + 1,
                       [new EXCEPT ![Len(new)] = @ + 2], 0)
         ELSE row_scan_addtwo(row, j + 1, Append(new, val), val)

\* lines 50-63 with line 59 left out: the second tile of a pair vanishes
\* and the first keeps its value
RECURSIVE row_scan_nodouble(_, _, _, _)
row_scan_nodouble(row, j, new, last_val) ==
    IF j > N THEN new
    ELSE LET val == row[j] IN
         IF val = 0 THEN row_scan_nodouble(row, j + 1, new, last_val)
         ELSE IF Len(new) = 0
              THEN row_scan_nodouble(row, j + 1, Append(new, val), val)
         ELSE IF val = last_val
              THEN row_scan_nodouble(row, j + 1, new, 0)
         ELSE row_scan_nodouble(row, j + 1, Append(new, val), val)

\* lines 48-63: the scan of one row, from column j on, with the tiles
\* placed so far in new and the tracked value last_val
RECURSIVE row_scan(_, _, _, _)
row_scan(row, j, new, last_val) ==
    IF j > N THEN new
    ELSE LET val == row[j] IN
         IF val = 0 THEN row_scan(row, j + 1, new, last_val)
         ELSE IF Len(new) = 0
              THEN row_scan(row, j + 1, Append(new, val), val)
         ELSE IF val = last_val
              THEN row_scan(row, j + 1, [new EXCEPT ![Len(new)] = 2 * @], 0)
         ELSE row_scan(row, j + 1, Append(new, val), val)

\* lines 64-65: pad with zeros to length 4
RECURSIVE pad(_)
pad(new) == IF Len(new) < N THEN pad(Append(new, 0)) ELSE new

\* lines 48-66: one iteration of the outer loop
compress_row(row) == pad(row_scan(row, 1, << >>, 0))

\* lines 45-68
compress_rows(b) == Tuple([i \in Idx |-> compress_row(b[i])])

\* lines 71-76 undoing DOWN with the forward transform of line 43
restore_down_forward(b, d) ==
    IF d = "RIGHT" THEN flip1(b)
    ELSE IF d = "UP" THEN transpose(b)
    ELSE IF d = "DOWN" THEN flip1(transpose(b))
    ELSE b

\* lines 71-76
restore(b, d) ==
    IF d = "RIGHT" THEN flip1(b)
    ELSE IF d = "UP" THEN transpose(b)
    ELSE IF d = "DOWN" THEN transpose(flip1(b))
    ELSE b

\* lines 36-76: new_board as it stands at line 79
move_new_board(b, d) == restore(compress_rows(orient(b, d)), d)

(***************************************************************************)
(* Row-level specification: the row-compress step on every row.            *)
(***************************************************************************)
RowTiles == {0} \cup { Pow2(k) : k \in 1..RowMaxExp }

Rows == { Tuple(r) : r \in [Idx -> RowTiles] }

NoResponse == [raises |-> FALSE, names |-> {}, final |-> "NONE"]

InitRow ==
    /\ arg \in { [row |-> r] : r \in Rows }
    /\ op = "init"
    /\ ret = [row |-> << >>]
    /\ board = NoBoard
    /\ new_board = NoBoard
    /\ move_count = 0
    /\ score = 0
    /\ rng = 0
    /\ pc = "idle"
    /\ max_moves = 0
    /\ next_move = "NONE"
    /\ response = NoResponse
    /\ calls = 0

CompressRow ==
    /\ op = "init"
    /\ op' = "compress_row"
    /\ ret' = [row |-> compress_row(arg.row)]
    /\ UNCHANGED << board, move_count, score, rng, pc, max_moves, next_move,
                    response, arg, new_board, calls >>

NextRow == CompressRow

SpecRow == InitRow /\ [][NextRow]_vars

(***************************************************************************)
(* Reference for C1, written on the list of tiles and not on the scan:     *)
(* the nonzero values in order, equal neighbours paired off from the left. *)
(***************************************************************************)
NonZero(row) == SelectSeq(row, LAMBDA v : v # 0)

RECURSIVE MergePairs(_)
MergePairs(s) ==
    IF Len(s) < 2 THEN s
    ELSE IF s[1] = s[2]
         THEN << 2 * s[1] >> \o MergePairs(SubSeq(s, 3, Len(s)))
         ELSE << s[1] >> \o MergePairs(Tail(s))

ZeroFill(s) == Tuple([j \in Idx |-> IF j <= Len(s) THEN s[j] ELSE 0])

SlideMerge(row) == ZeroFill(MergePairs(NonZero(row)))

\* C1: the row-compress step slides the nonzero values left in order, merges
\* equal neighbours (zeros skipped) pairwise from the left, each tile merging
\* at most once; [2,2,2,2] -> [4,4,0,0], [0,0,2,2] -> [4,0,0,0],
\* [2,0,0,2] -> [4,0,0,0].
C1_RowCompress ==
    op = "compress_row" =>
        /\ ret.row = SlideMerge(arg.row)
        /\ (arg.row = << 2, 2, 2, 2 >> => ret.row = << 4, 4, 0, 0 >>)
        /\ (arg.row = << 0, 0, 2, 2 >> => ret.row = << 4, 0, 0, 0 >>)
        /\ (arg.row = << 2, 0, 0, 2 >> => ret.row = << 4, 0, 0, 0 >>)

C1_Witness ==
    /\ op = "compress_row"
    /\ arg.row = << 2, 2, 2, 2 >>
    /\ ret.row = << 4, 4, 0, 0 >>

(***************************************************************************)
(* add_random_tile and move                                                *)
(***************************************************************************)
Cells == Idx \X Idx

\* line 27: the cells holding 0
empty_cells(b) == { c \in Cells : b[c[1]][c[2]] = 0 }

\* line 26: the value drawn
SpawnValues == { 2, 4 }

\* line 31
put(b, c, v) == [b EXCEPT ![c[1]][c[2]] = v]

\* the cells in row-major order, the order of np.transpose(nonzero)
AllCells == [k \in 1..(N * N) |-> << ((k - 1) \div N) + 1, ((k - 1) % N) + 1 >>]

empty_list(b) == SelectSeq(AllCells, LAMBDA c : b[c[1]][c[2]] = 0)

\* line 30: random.choice, its index kept below K
random_choice(seq, K) ==
    { seq[i] : i \in 1..(IF Len(seq) < K THEN Len(seq) ELSE K) }

\* lines 25-31 writing wherever random.choice points in the whole grid,
\* the empty-cell filter of line 27 dropped
add_random_tile_anycell(b, K) ==
    IF empty_cells(b) = {} THEN { b }
    ELSE { put(b, c, v) : c \in random_choice(AllCells, K), v \in SpawnValues }

\* lines 25-31: the contents the array can have after the call
add_random_tile_k(b, K) ==
    IF Len(empty_list(b)) = 0 THEN { b }
    ELSE { put(b, c, v) : c \in random_choice(empty_list(b), K),
                          v \in SpawnValues }

add_random_tile(b) == add_random_tile_k(b, N * N)

\* lines 26-30: draws taken from the generator by one call: random.random()
\* always, random.choice only past the early return
random_draws(b) == IF Len(empty_list(b)) = 0 THEN 1 ELSE 2

\* line 79 comparing nothing: the move is never found illegal
move_raises_never(b, d) == FALSE

\* lines 79-80
move_raises(b, d) == move_new_board(b, d) = b

\* lines 34-83: the outcomes of move(board, d)
move_k(b, d, K) ==
    IF move_raises(b, d)
    THEN { [raised |-> TRUE, board |-> NoBoard, draws |-> 0] }
    ELSE LET new_array == move_new_board(b, d)
             draws == random_draws(new_array)
         IN  { [raised |-> FALSE, board |-> nb, draws |-> draws] :
               nb \in add_random_tile_k(new_array, K) }

move(b, d) == move_k(b, d, N * N)

\* lines 18-22 with line 21 left out: one seed tile
init_board_once(K) == add_random_tile_k(ZeroBoard, K)

\* lines 18-22
init_board_k(K) ==
    UNION { add_random_tile_k(b1, K) : b1 \in add_random_tile_k(ZeroBoard, K) }

(***************************************************************************)
(* agent.py: get_available_moves                                           *)
(***************************************************************************)
\* lines 47-56 trying the directions in the order UP, DOWN, LEFT, RIGHT
RECURSIVE available_scan_reordered(_, _, _)
available_scan_reordered(b, k, available_moves) ==
    LET order == << "UP", "DOWN", "LEFT", "RIGHT" >> IN
    IF k > Len(order) THEN available_moves
    ELSE IF move_raises(b, order[k])
         THEN available_scan_reordered(b, k + 1, available_moves)
         ELSE available_scan_reordered(b, k + 1,
                  Append(available_moves, order[k]))

\* lines 47-56: the loop over Move from its k-th member on
RECURSIVE available_scan(_, _, _)
available_scan(b, k, available_moves) ==
    IF k > Len(MoveOrder) THEN available_moves
    ELSE IF move_raises(b, MoveOrder[k])
         THEN available_scan(b, k + 1, available_moves)
         ELSE available_scan(b, k + 1, Append(available_moves, MoveOrder[k]))

\* lines 45-56
get_available_moves(b) == available_scan(b, 1, << >>)

\* draws taken from the generator by get_available_moves: every legal
\* direction runs move() to its end, add_random_tile included (line 52)
RECURSIVE available_draws(_, _)
available_draws(b, k) ==
    IF k > Len(MoveOrder) THEN 0
    ELSE (IF move_raises(b, MoveOrder[k]) THEN 0
          ELSE random_draws(move_new_board(b, MoveOrder[k])))
         + available_draws(b, k + 1)

(***************************************************************************)
(* agent.py: calculate_score, reset_game, get_next_move, make_move         *)
(***************************************************************************)
RECURSIVE SumSeq(_)
SumSeq(q) == IF Len(q) = 0 THEN 0 ELSE q[1] + SumSeq(Tail(q))

\* lines 41-43: np.sum(board)
calculate_score(b) == SumSeq([k \in 1..(N * N) |-> b[AllCells[k][1]][AllCells[k][2]]])

\* lines 23-28: the boards reset_game can install; move_count and score
\* become 0, and the two add_random_tile calls take two draws each
reset_game_k(K) == init_board_k(K)

\* What get_next_move reads of the Oracle (lines 102-109): whether the call
\* raised, which direction names the text contains, and the direction of
\* its last line "MOVE: ..." (NONE when the text names no direction).
Responses ==
    { [raises |-> TRUE, names |-> {}, final |-> "NONE"],
      [raises |-> FALSE, names |-> {}, final |-> "NONE"] }
    \cup UNION { { [raises |-> FALSE, names |-> S, final |-> f] : f \in S } :
                 S \in SUBSET Moves }

\* lines 116-119: the first of LEFT, RIGHT, UP, DOWN the text contains,
\* "" when it contains none
RECURSIVE first_named(_, _)
first_named(names, k) ==
    IF k > Len(MoveOrder) THEN ""
    ELSE IF MoveOrder[k] \in names THEN MoveOrder[k]
    ELSE first_named(names, k + 1)

\* Python's `name in move_text` on a move_text that is "" or one direction
\* name: no direction name is a substring of another
name_in(name, move_text) == name = move_text

\* lines 134-138: the first available move whose name is in move_text
RECURSIVE select_move(_, _, _)
select_move(available_moves, move_text, k) ==
    IF k > Len(available_moves) THEN "NONE"
    ELSE IF name_in(available_moves[k], move_text) THEN available_moves[k]
    ELSE select_move(available_moves, move_text, k + 1)

InSeq(x, q) == \E k \in 1..Len(q) : q[k] = x

\* lines 141-153 without the membership tests: the named move is taken
\* whether it is available or not
infer_move_unchecked(available_moves, move_text) ==
    IF name_in("LEFT", move_text) THEN "LEFT"
    ELSE IF name_in("RIGHT", move_text) THEN "RIGHT"
    ELSE IF name_in("UP", move_text) THEN "UP"
    ELSE IF name_in("DOWN", move_text) THEN "DOWN"
    ELSE available_moves[1]

\* lines 141-153: the chain of tests, then the fallback
infer_move(available_moves, move_text) ==
    IF name_in("LEFT", move_text) /\ InSeq("LEFT", available_moves) THEN "LEFT"
    ELSE IF name_in("RIGHT", move_text) /\ InSeq("RIGHT", available_moves)
         THEN "RIGHT"
    ELSE IF name_in("UP", move_text) /\ InSeq("UP", available_moves) THEN "UP"
    ELSE IF name_in("DOWN", move_text) /\ InSeq("DOWN", available_moves)
         THEN "DOWN"
    ELSE available_moves[1]

\* lines 133-155: the move parsed from a response that arrived
parse_move(available_moves, resp) ==
    LET move_text == first_named(resp.names, 1)
        selected_move == select_move(available_moves, move_text, 1)
    IN  IF selected_move # "NONE" THEN selected_move
        ELSE infer_move(available_moves, move_text)

\* lines 66-161 with the test of lines 64-65 left out: the Oracle is called
\* on an empty list too, and the IndexError of available_moves[0] at line
\* 152 is caught at line 157
choose_move_nocheck(available_moves, resp) ==
    IF Len(available_moves) = 0
    THEN [move |-> "NONE", reason |-> "error", called |-> TRUE]
    ELSE IF resp.raises
    THEN [move |-> available_moves[1], reason |-> "error", called |-> TRUE]
    ELSE [move |-> parse_move(available_moves, resp),
          reason |-> "response", called |-> TRUE]

\* lines 64-161, available_moves being the list of line 63: the move
\* returned, the kind of reasoning string, and whether the Oracle was called
choose_move(available_moves, resp) ==
    IF Len(available_moves) = 0
    THEN [move |-> "NONE", reason |-> "game over", called |-> FALSE]
    ELSE IF resp.raises
    THEN [move |-> available_moves[1], reason |-> "error", called |-> TRUE]
    ELSE [move |-> parse_move(available_moves, resp),
          reason |-> "response", called |-> TRUE]

\* line 63; not reached on the board None
available_of(b) == IF b = NoBoard THEN << >> ELSE get_available_moves(b)

\* lines 58-161, available_moves being available_of(b)
get_next_move(b, available_moves, resp) ==
    IF b = NoBoard
    THEN [move |-> "NONE", reason |-> "", called |-> FALSE]
    ELSE choose_move(available_moves, resp)

\* draws get_next_move takes from the generator (line 63)
get_next_move_draws(b) == IF b = NoBoard THEN 0 ELSE available_draws(b, 1)

\* lines 163-174 with line 170 left out
make_move_nocount(b, mc, sc, d, K) ==
    IF b = NoBoard
    THEN { [ok |-> FALSE, board |-> b, move_count |-> mc, score |-> sc,
            draws |-> 0] }
    ELSE { IF out.raised
           THEN [ok |-> FALSE, board |-> b, move_count |-> mc, score |-> sc,
                 draws |-> 0]
           ELSE [ok |-> TRUE, board |-> out.board, move_count |-> mc,
                 score |-> calculate_score(out.board), draws |-> out.draws] :
           out \in move_k(b, d, K) }

\* lines 163-174: the outcomes of make_move on an agent holding b
make_move_k(b, mc, sc, d, K) ==
    IF b = NoBoard
    THEN { [ok |-> FALSE, board |-> b, move_count |-> mc, score |-> sc,
            draws |-> 0] }
    ELSE { IF out.raised
           THEN [ok |-> FALSE, board |-> b, move_count |-> mc, score |-> sc,
                 draws |-> 0]
           ELSE [ok |-> TRUE, board |-> out.board, move_count |-> mc + 1,
                 score |-> calculate_score(out.board), draws |-> out.draws] :
           out \in move_k(b, d, K) }

(***************************************************************************)
(* Function-level specification: move, get_available_moves and             *)
(* add_random_tile called once on a board of a bounded family.             *)
(***************************************************************************)
\* the cells in the order in which they become free cells of the family
FreeOrder ==
    << << 1, 1 >>, << 1, 2 >>, << 2, 2 >>, << 2, 3 >>, << 1, 3 >>,
       << 3, 2 >>, << 3, 3 >>, << 1, 4 >>, << 4, 2 >>, << 2, 1 >>,
       << 2, 4 >>, << 3, 1 >>, << 3, 4 >>, << 4, 1 >>, << 4, 3 >>,
       << 4, 4 >> >>

FamilyTiles == {0} \cup SpawnValues

Checker ==
    Tuple([i \in Idx |-> Tuple([j \in Idx |-> IF (i + j) % 2 = 0 THEN 2 ELSE 4])])

Backgrounds == { ZeroBoard, Checker }

FreeIdx == 1..(IF FreeCells < Len(FreeOrder) THEN FreeCells ELSE Len(FreeOrder))

Overlay(bg, f) ==
    Tuple([i \in Idx |-> Tuple([j \in Idx |->
        IF \E k \in FreeIdx : FreeOrder[k] = << i, j >>
        THEN f[CHOOSE k \in FreeIdx : FreeOrder[k] = << i, j >>]
        ELSE bg[i][j]])])

BoardFamily == { Overlay(bg, f) : bg \in Backgrounds, f \in [FreeIdx -> FamilyTiles] }

InitMove ==
    /\ board \in BoardFamily
    /\ arg = [board |-> board, move |-> "NONE"]
    /\ op = "init"
    /\ ret = [raised |-> FALSE, board |-> NoBoard, moves |-> << >>]
    /\ new_board = NoBoard
    /\ move_count = 0
    /\ score = 0
    /\ rng = 0
    /\ pc = "idle"
    /\ max_moves = 0
    /\ next_move = "NONE"
    /\ response = NoResponse
    /\ calls = 0

\* lines 36-83 writing the result back into the array passed
caller_board_overwritten(b, nb) == nb

\* The cells of the array passed to move() once move() has ended, nb being
\* the array new_board at that point: line 36 takes a copy, lines 39-43
\* and 72-76 only build views, the rows are rebuilt as lists into the fresh
\* array of line 68, and the one write (line 31, through line 82) lands in
\* that fresh array
caller_board_after(b, nb) == b

\* a caller runs move(board, d)
MoveCall ==
    /\ op = "init"
    /\ \E d \in Moves : \E out \in move(board, d) :
        /\ op' = "move"
        /\ arg' = [board |-> board, move |-> d]
        /\ new_board' = move_new_board(board, d)
        /\ ret' = [raised |-> out.raised, board |-> out.board, moves |-> << >>]
        /\ rng' = rng + out.draws
        /\ board' = caller_board_after(board,
                        IF out.raised THEN move_new_board(board, d)
                        ELSE out.board)
    /\ UNCHANGED << move_count, score, pc, max_moves, next_move,
                    response, calls >>

\* a caller runs get_available_moves(board)
GetAvailableMovesCall ==
    /\ op = "init"
    /\ op' = "get_available_moves"
    /\ ret' = [raised |-> FALSE, board |-> NoBoard,
               moves |-> get_available_moves(board)]
    /\ rng' = rng + available_draws(board, 1)
    /\ UNCHANGED << board, move_count, score, pc, max_moves, next_move,
                    response, arg, new_board, calls >>

\* a caller runs add_random_tile(board), which writes into the array
AddRandomTileCall ==
    /\ op = "init"
    /\ op' = "add_random_tile"
    /\ board' \in add_random_tile(board)
    /\ rng' = rng + random_draws(board)
    /\ UNCHANGED << move_count, score, pc, max_moves, next_move, response,
                    arg, ret, new_board, calls >>

NextMove == MoveCall \/ GetAvailableMovesCall \/ AddRandomTileCall

SpecMove == InitMove /\ [][NextMove]_vars

(***************************************************************************)
(* Transform-level specification: the transform of lines 38-43 followed by *)
(* the inverse transform of lines 71-76, nothing compressed in between.    *)
(***************************************************************************)
TransformCall ==
    /\ op = "init"
    /\ \E d \in Moves :
        /\ op' = "transform"
        /\ arg' = [board |-> board, move |-> d]
        /\ new_board' = orient(board, d)
        /\ ret' = [raised |-> FALSE, board |-> restore(orient(board, d), d),
                   moves |-> << >>]
    /\ UNCHANGED << board, move_count, score, rng, pc, max_moves, next_move,
                    response, calls >>

NextTransform == TransformCall

SpecTransform == InitMove /\ [][NextTransform]_vars

(***************************************************************************)
(* Late-game boards.  Each is reached from reset_game by legal moves:      *)
(* reset_game puts two tiles in row 1; DOWN, then a spawn in row 1, ten    *)
(* times over, then DOWN once more, stacks twelve tiles in rows 2-4 in a   *)
(* checkerboard of 2s and 4s (no two equal tiles ever touch, so nothing    *)
(* merges); then, k times, a spawn at (1,4) followed by LEFT lays k        *)
(* alternating tiles in row 1; the last spawn falls on a free cell of      *)
(* row 1.  That is 11 + k moves and 13 + k tiles.                          *)
(***************************************************************************)
Alt(n, parity) == IF (n + parity) % 2 = 0 THEN 2 ELSE 4

LateBoard(sp, tp, k, j, v) ==
    Tuple([i \in Idx |-> Tuple([c \in Idx |->
        IF i > 1 THEN Alt(i + c, sp)
        ELSE IF c <= k THEN Alt(c, tp)
        ELSE IF c = j THEN v
        ELSE 0])])

LateBoards ==
    UNION { { LateBoard(sp, tp, k, j, v) :
                sp \in 0..1, tp \in 0..1, j \in (k + 1)..N, v \in SpawnValues } :
            k \in 0..(N - 1) }

TileCount(b) == Cardinality(Cells \ empty_cells(b))

NoResult == [move |-> "NONE", reason |-> "", called |-> FALSE, ok |-> FALSE,
             exit |-> "none"]

(***************************************************************************)
(* Specification of play_game: the agent as constructed, or in the loop    *)
(* of play_game on a late-game board.                                      *)
(***************************************************************************)
InitFresh ==
    /\ board = NoBoard
    /\ move_count = 0
    /\ score = 0
    /\ pc = "idle"
    /\ max_moves = 0
    /\ op = "init"

InitLate ==
    /\ board \in LateBoards
    /\ move_count = TileCount(board) - 2
    /\ score = calculate_score(board)
    /\ pc = "loop"
    /\ max_moves \in { move_count + e : e \in 0..MaxMovesCap }
    /\ op = "make_move"

Init ==
    /\ InitFresh \/ InitLate
    /\ rng = 0
    /\ next_move = "NONE"
    /\ response = NoResponse
    /\ arg = [move |-> "NONE"]
    /\ ret = NoResult
    /\ new_board = NoBoard
    /\ calls = 0

\* lines 176-186: play_game(max_moves) starts with reset_game
PlayGame ==
    /\ pc = "idle"
    /\ \E m \in 0..MaxMovesCap : \E b \in reset_game_k(SpawnChoices) :
        /\ max_moves' = m
        /\ board' = b
    /\ move_count' = 0
    /\ score' = 0
    /\ rng' = rng + 4
    /\ pc' = "loop"
    /\ op' = "reset_game"
    /\ UNCHANGED << next_move, response, arg, ret, new_board, calls >>

\* line 188 false: the loop ends on the cap
LoopEnd ==
    /\ pc = "loop"
    /\ ~(move_count < max_moves)
    /\ pc' = "done"
    /\ op' = "play_game"
    /\ ret' = [ret EXCEPT !.exit = "cap"]
    /\ UNCHANGED << board, move_count, score, rng, max_moves, next_move,
                    response, arg, new_board, calls >>

\* lines 188-193: one pass through get_next_move, the Oracle answering resp
Turn ==
    /\ pc = "loop"
    /\ move_count < max_moves
    /\ rng' = rng + get_next_move_draws(board)
    /\ op' = "get_next_move"
    /\ UNCHANGED << board, move_count, score, max_moves, arg, new_board, calls >>
    /\ LET available_moves == available_of(board) IN
       \E resp \in Responses :
        LET r == get_next_move(board, available_moves, resp) IN
        /\ response' = IF r.called THEN resp ELSE NoResponse
        /\ next_move' = r.move
        /\ ret' = [move |-> r.move, reason |-> r.reason, called |-> r.called,
                   ok |-> FALSE,
                   exit |-> IF r.move = "NONE" THEN "game over" ELSE "none"]
        /\ pc' = IF r.move = "NONE" THEN "done" ELSE "chosen"

\* lines 199-203: make_move(next_move)
Apply ==
    /\ pc = "chosen"
    /\ \E out \in make_move_k(board, move_count, score, next_move, SpawnChoices) :
        /\ board' = out.board
        /\ move_count' = out.move_count
        /\ score' = out.score
        /\ rng' = rng + out.draws
        /\ ret' = [NoResult EXCEPT !.ok = out.ok,
                                   !.exit = IF out.ok THEN "none" ELSE "invalid"]
        /\ pc' = IF out.ok THEN "loop" ELSE "done"
    /\ arg' = [move |-> next_move]
    /\ op' = "make_move"
    /\ response' = NoResponse
    /\ UNCHANGED << max_moves, next_move, new_board, calls >>

Next == PlayGame \/ LoopEnd \/ Turn \/ Apply

Spec == Init /\ [][Next]_vars

\* play_game is one thread of control and every Oracle call returns or
\* raises, so a step that can be taken is taken: weak fairness of Next.
\* A step of Next can be taken exactly until play_game has returned
\* (PlayGame from "idle", LoopEnd or Turn from "loop", Apply from "chosen"),
\* so WF_vars(Next) is written with pc # "done" for ENABLED <<Next>>_vars.
FairSpec == Spec /\ ([]<>(pc = "done") \/ []<><<Next>>_vars)

(***************************************************************************)
(* Method-level specification: a driver calls reset_game, get_next_move    *)
(* and make_move in any order on an agent as constructed or holding a      *)
(* late-game board.                                                        *)
(***************************************************************************)
InitApi ==
    /\ board \in LateBoards \cup { NoBoard }
    /\ move_count = (IF board = NoBoard THEN 0 ELSE TileCount(board) - 2)
    /\ score = (IF board = NoBoard THEN 0 ELSE calculate_score(board))
    /\ pc = "idle"
    /\ max_moves = 0
    /\ op = "init"
    /\ rng = 0
    /\ next_move = "NONE"
    /\ response = NoResponse
    /\ arg = [move |-> "NONE"]
    /\ ret = NoResult
    /\ new_board = NoBoard
    /\ calls = 0

ResetGameCall ==
    /\ calls < MaxCalls
    /\ calls' = calls + 1
    /\ board' \in reset_game_k(SpawnChoices)
    /\ move_count' = 0
    /\ score' = 0
    /\ rng' = rng + 4
    /\ op' = "reset_game"
    /\ arg' = [move |-> "NONE"]
    /\ ret' = NoResult
    /\ response' = NoResponse
    /\ UNCHANGED << pc, max_moves, next_move, new_board >>

GetNextMoveCall ==
    /\ calls < MaxCalls
    /\ calls' = calls + 1
    /\ rng' = rng + get_next_move_draws(board)
    /\ op' = "get_next_move"
    /\ arg' = [move |-> "NONE"]
    /\ UNCHANGED << board, move_count, score, pc, max_moves, next_move,
                    new_board >>
    /\ LET available_moves == available_of(board) IN
       \E resp \in Responses :
        LET r == get_next_move(board, available_moves, resp) IN
        /\ response' = IF r.called THEN resp ELSE NoResponse
        /\ ret' = [move |-> r.move, reason |-> r.reason, called |-> r.called,
                   ok |-> FALSE, exit |-> "none"]

MakeMoveCall ==
    /\ calls < MaxCalls
    /\ calls' = calls + 1
    /\ \E d \in Moves :
        \E out \in make_move_k(board, move_count, score, d, SpawnChoices) :
        /\ board' = out.board
        /\ move_count' = out.move_count
        /\ score' = out.score
        /\ rng' = rng + out.draws
        /\ arg' = [move |-> d]
        /\ ret' = [NoResult EXCEPT !.ok = out.ok]
    /\ op' = "make_move"
    /\ response' = NoResponse
    /\ UNCHANGED << pc, max_moves, next_move, new_board >>

NextApi == ResetGameCall \/ GetNextMoveCall \/ MakeMoveCall

SpecApi == InitApi /\ [][NextApi]_vars

(***************************************************************************)
(* End-of-game specification: get_available_moves and get_next_move on     *)
(* boards with no empty cell, tiles 2, 4 and 8.                            *)
(***************************************************************************)
FullTiles == { 2, 4, 8 }

FullFamily == { Overlay(Checker, f) : f \in [FreeIdx -> FullTiles] }

\* the agent holds a full board; the counters are those of a game in which
\* every spawned tile was a 2
InitOver ==
    /\ board \in FullFamily
    /\ move_count = (calculate_score(board) \div 2) - 2
    /\ score = calculate_score(board)
    /\ pc = "idle"
    /\ max_moves = 0
    /\ op = "init"
    /\ rng = 0
    /\ next_move = "NONE"
    /\ response = NoResponse
    /\ arg = [move |-> "NONE"]
    /\ ret = NoResult
    /\ new_board = NoBoard
    /\ calls = 0

\* one call of get_next_move on the board as handed over
GetNextMoveOver ==
    /\ op = "init"
    /\ GetNextMoveCall

NextOver == GetAvailableMovesCall \/ GetNextMoveOver

SpecOver == InitOver /\ [][NextOver]_vars

(***************************************************************************)
(* Reference for C2, C3 and C5: packing a board directly along a           *)
(* direction, line by line, with no transform of the board.                *)
(***************************************************************************)
Reverse(s) == Tuple([j \in 1..Len(s) |-> s[Len(s) + 1 - j]])

Column(b, j) == Tuple([i \in Idx |-> b[i][j]])

PackDirect(b, d) ==
    IF d = "LEFT" THEN [i \in Idx |-> SlideMerge(b[i])]
    ELSE IF d = "RIGHT"
         THEN [i \in Idx |-> Reverse(SlideMerge(Reverse(b[i])))]
    ELSE IF d = "UP"
         THEN [i \in Idx |-> [j \in Idx |-> SlideMerge(Column(b, j))[i]]]
    ELSE [i \in Idx |-> [j \in Idx |->
             Reverse(SlideMerge(Reverse(Column(b, j))))[i]]]

DiffCells(p, q) == { c \in Cells : p[c[1]][c[2]] # q[c[1]][c[2]] }

\* q is p with at most one tile of value 2 or 4 written on an empty cell,
\* and with exactly one when p has an empty cell
Spawned(p, q) ==
    /\ \A c \in DiffCells(p, q) :
          p[c[1]][c[2]] = 0 /\ q[c[1]][c[2]] \in SpawnValues
    /\ Cardinality(DiffCells(p, q)) = (IF empty_cells(p) = {} THEN 0 ELSE 1)

\* C2: move(board, d) raises IllegalMove exactly when packing the board
\* along d changes no cell; then nothing is drawn and no board is returned;
\* otherwise the packed board with the spawned tile is returned, and it is
\* never equal to the board passed.
C2_IllegalMoveIff ==
    op = "move" =>
        /\ ret.raised <=> (PackDirect(arg.board, arg.move) = arg.board)
        /\ ret.raised => (ret.board = NoBoard /\ rng = 0)
        /\ ~ret.raised =>
              /\ Spawned(PackDirect(arg.board, arg.move), ret.board)
              /\ ret.board # arg.board

C2_Witness ==
    /\ op = "move"
    /\ ret.raised
    /\ empty_cells(arg.board) # {}
    /\ arg.board # ZeroBoard

LegalDirect(b) == SelectSeq(MoveOrder, LAMBDA d : PackDirect(b, d) # b)

\* C3: get_available_moves(board) is the list of the directions whose
\* packing changes a cell, each once, in the order LEFT, RIGHT, UP, DOWN.
C3_AvailableMoves ==
    op = "get_available_moves" => ret.moves = LegalDirect(board)

C3_Witness ==
    /\ op = "get_available_moves"
    /\ board = [ZeroBoard EXCEPT ![1] = << 2, 4, 0, 0 >>]
    /\ ret.moves = << "RIGHT", "DOWN" >>

\* C4: get_available_moves(board) leaves the board, the move counter, the
\* score and the state of the random generator unchanged.
C4_Pure ==
    [][op' = "get_available_moves" =>
          /\ board' = board
          /\ move_count' = move_count
          /\ score' = score
          /\ rng' = rng]_vars

\* C5: the board move() holds before the spawn equals the board packed
\* directly along the direction; [[2,2,0,0],0,0,0] moved LEFT gives
\* [[4,0,0,0],0,0,0].
C5_TransformEqualsDirect ==
    op = "move" =>
        /\ new_board = PackDirect(arg.board, arg.move)
        /\ (arg.board = [ZeroBoard EXCEPT ![1] = << 2, 2, 0, 0 >>]
              /\ arg.move = "LEFT")
           => new_board = [ZeroBoard EXCEPT ![1] = << 4, 0, 0, 0 >>]

C5_Witness ==
    /\ op = "move"
    /\ arg.move = "DOWN"
    /\ arg.board[1][2] = 2
    /\ arg.board[2][2] = 2
    /\ arg.board[3][2] = 0
    /\ arg.board[4][2] = 0
    /\ new_board[4][2] = 4
    /\ new_board[3][2] = 0

\* C10: add_random_tile writes on an empty cell only: with an empty cell it
\* changes exactly one cell, from 0 to 2 or 4; with none it changes nothing.
C10_SpawnOnEmpty ==
    op = "add_random_tile" =>
        IF empty_cells(arg.board) = {}
        THEN board = arg.board
        ELSE \E c \in Cells :
                /\ arg.board[c[1]][c[2]] = 0
                /\ board[c[1]][c[2]] \in { 2, 4 }
                /\ \A e \in Cells \ { c } :
                      board[e[1]][e[2]] = arg.board[e[1]][e[2]]

C10_Witness ==
    /\ op = "add_random_tile"
    /\ Cardinality(empty_cells(arg.board)) = 1
    /\ empty_cells(board) = {}
    /\ board # arg.board

Legal(b) == { d \in Moves : PackDirect(b, d) # b }

FirstLegal(b) == LegalDirect(b)[1]

\* C6: when the Oracle call raises, the response contains no direction
\* name, or the direction the Oracle chooses (its closing MOVE line) is not
\* legal, get_next_move returns the first legal move in the order LEFT,
\* RIGHT, UP, DOWN.
C6_FallbackFirstLegal ==
    (op = "get_next_move" /\ ret.called) =>
        ((\/ response.raises
          \/ response.names = {}
          \/ (response.final # "NONE" /\ response.final \notin Legal(board)))
         => ret.move = FirstLegal(board))

\* C7: the move handed to make_move is legal on the current board, so
\* make_move never fails inside the loop, and an Oracle that was called,
\* whatever it did, does not end the game.
C7_MoveHandedIsLegal ==
    /\ pc = "chosen" => next_move \in Legal(board)
    /\ ret.exit # "invalid"
    /\ (op = "get_next_move" /\ ret.called) => pc = "chosen"

C7_Witness ==
    /\ pc = "chosen"
    /\ ~response.raises
    /\ response.names # {}
    /\ response.names \cap Legal(board) = {}
    /\ next_move \in Legal(board)

\* C8: play_game terminates; the move counter rises by exactly one per
\* applied move, changes at no other step of the loop, and never exceeds
\* max_moves; when the loop has ended, no direction is legal on the board
\* or the move counter equals max_moves.
C8_Terminates ==
    /\ <>(pc = "done")
    /\ [](pc # "idle" => move_count <= max_moves)
    /\ [][pc = "chosen" =>
            move_count' = (IF ret'.ok THEN move_count + 1 ELSE move_count)]_vars
    /\ [][pc = "loop" => move_count' = move_count]_vars
    /\ [](pc = "done" => (Legal(board) = {} \/ move_count = max_moves))

C8_Witness ==
    /\ pc = "done"
    /\ ret.exit = "game over"
    /\ move_count < max_moves
    /\ Legal(board) = {}

\* C9: once the board has no legal direction, every later get_next_move
\* returns no move and every later make_move returns False, and both leave
\* the board, the move counter and the score unchanged, until reset_game.
C9_TerminalAbsorbing ==
    [][(board # NoBoard /\ Legal(board) = {} /\ op' # "reset_game") =>
          /\ board' = board
          /\ move_count' = move_count
          /\ score' = score
          /\ (op' = "get_next_move" => ret'.move = "NONE")
          /\ (op' = "make_move" => ~ret'.ok)]_vars

C9_Witness ==
    /\ op = "make_move"
    /\ ~ret.ok
    /\ board # NoBoard
    /\ Legal(board) = {}
    /\ move_count = 14

\* C11: reset_game yields a board with exactly two nonzero cells, on distinct
\* positions, each 2 or 4, and sets the move counter to 0.
C11_ResetTwoTiles ==
    op = "reset_game" =>
        /\ Cardinality(Cells \ empty_cells(board)) = 2
        /\ \A c \in Cells : board[c[1]][c[2]] \in {0, 2, 4}
        /\ \E c1 \in Cells : \E c2 \in Cells \ { c1 } :
              /\ board[c1[1]][c1[2]] \in { 2, 4 }
              /\ board[c2[1]][c2[2]] \in { 2, 4 }
        /\ move_count = 0

C11_Witness ==
    /\ op = "reset_game"
    /\ \E c1 \in Cells : \E c2 \in Cells :
          board[c1[1]][c1[2]] = 2 /\ board[c2[1]][c2[2]] = 4
    /\ move_count = 0

Full(b) == empty_cells(b) = {}

NoAdjacentEqual(b) ==
    \A i \in Idx : \A j \in Idx :
        /\ (j < N => b[i][j] # b[i][j + 1])
        /\ (i < N => b[i][j] # b[i + 1][j])

\* C12: on a board with no empty cell and no two equal values adjacent in a
\* row or a column, get_available_moves returns the empty list and
\* get_next_move reports game over without calling the Oracle.
C12_DeadBoardNoMoves ==
    (Full(board) /\ NoAdjacentEqual(board)) =>
        /\ (op = "get_available_moves" => ret.moves = << >>)
        /\ (op = "get_next_move" =>
               /\ ret.move = "NONE"
               /\ ret.reason = "game over"
               /\ ~ret.called
               /\ response = NoResponse)

C12_Witness ==
    /\ op = "get_next_move"
    /\ Full(board)
    /\ NoAdjacentEqual(board)
    /\ \E c \in Cells : board[c[1]][c[2]] = 8
    /\ ret.move = "NONE"

\* C13: the transform of a direction (identity for LEFT, horizontal flip for
\* RIGHT, transpose for UP, transpose then horizontal flip for DOWN)
\* followed by the inverse transform move() uses for that direction
\* reproduces the board.
C13_RoundTrip ==
    op = "transform" =>
        /\ ret.board = arg.board
        /\ \A i \in Idx : \A j \in Idx :
              new_board[i][j] =
                  (IF arg.move = "LEFT" THEN arg.board[i][j]
                   ELSE IF arg.move = "RIGHT" THEN arg.board[i][N + 1 - j]
                   ELSE IF arg.move = "UP" THEN arg.board[j][i]
                   ELSE arg.board[N + 1 - j][i])

C13_Witness ==
    /\ op = "transform"
    /\ arg.move = "DOWN"
    /\ arg.board = [ZeroBoard EXCEPT ![1] = << 2, 4, 0, 0 >>]
    /\ new_board = << << 0, 0, 0, 2 >>, << 0, 0, 0, 4 >>,
                      << 0, 0, 0, 0 >>, << 0, 0, 0, 0 >> >>
    /\ ret.board = arg.board

\* C14: when the response ends with a line 'MOVE: X' and X is legal,
\* get_next_move returns X, whichever other direction names the response
\* contains.
C14_FinalMoveReturned ==
    (op = "get_next_move" /\ ret.called /\ ~response.raises
        /\ response.final \in Legal(board))
    => ret.move = response.final

\* C15 as stated: among the boards move() is called on, some board has a
\* legal move that leaves the board held before the spawn with all 16
\* cells occupied, and move() then returns that board with no new tile.
C15_LegalMoveCanFillBoard ==
    op = "init" =>
        \E b \in BoardFamily : \E d \in Moves :
            /\ ~move_raises(b, d)
            /\ Full(move_new_board(b, d))
            /\ \A out \in move(b, d) : out.board = move_new_board(b, d)

\* C15 as amended: a legal move never leaves the board held before the
\* spawn with all 16 cells occupied: move() always finds an empty cell,
\* takes both draws and returns the packed board with exactly one new tile.
C15_LegalMoveLeavesRoom ==
    (op = "move" /\ ~ret.raised) =>
        /\ ~Full(new_board)
        /\ Cardinality(DiffCells(new_board, ret.board)) = 1
        /\ TileCount(ret.board) = TileCount(new_board) + 1
        /\ rng = 2

C15_Witness ==
    /\ op = "move"
    /\ ~ret.raised
    /\ Full(arg.board)
    /\ TileCount(new_board) = 15
    /\ Full(ret.board)

RECURSIVE IsPowerOfTwo(_)
IsPowerOfTwo(v) == v = 2 \/ (v > 2 /\ v % 2 = 0 /\ IsPowerOfTwo(v \div 2))

\* C16: in every state reached from reset_game by moves, every cell of the
\* board is 0 or a power of two that is at least 2, on a grid of 16 cells.
C16_TilesArePowersOfTwo ==
    board # NoBoard =>
        /\ Len(board) = N
        /\ \A i \in Idx : Len(board[i]) = N
        /\ \A c \in Cells :
              board[c[1]][c[2]] = 0 \/ IsPowerOfTwo(board[c[1]][c[2]])
        /\ TileCount(board) <= N * N

C16_Witness ==
    /\ op = "make_move"
    /\ ret.ok
    /\ move_count > 11
    /\ \E c \in Cells : board[c[1]][c[2]] = 8

C18_SumGrowth ==
    /\ [](pc = "chosen" =>
            calculate_score(move_new_board(board, next_move))
                = calculate_score(board))
    /\ [][pc = "chosen" =>
            IF ret'.ok
            THEN /\ calculate_score(board') - calculate_score(board)
                       \in SpawnValues
                 /\ TileCount(board')
                       = TileCount(move_new_board(board, next_move)) + 1
            ELSE board' = board]_vars
    /\ [](pc \in { "loop", "chosen", "done" } =>
            /\ 2 * (move_count + 2) <= calculate_score(board)
            /\ calculate_score(board) <= 4 * (move_count + 2))

C18_Witness ==
    /\ op = "make_move"
    /\ ret.ok
    /\ move_count = 1
    /\ calculate_score(board) = 12
    /\ \E c \in Cells : board[c[1]][c[2]] = 8

\* C19: the score play_game reports at its end equals the sum of the tiles
\* of the final board, and at every point after reset_game the stored score
\* equals the sum of the tiles of the current board.
C19_ScoreIsBoardSum ==
    pc \in { "loop", "chosen", "done" } => score = calculate_score(board)

====
